---- MODULE Spec2Model ----
(***************************************************************************)
(* grefsen compositor entry point (src/compositor/main.cpp): the crash     *)
(* handler and its fork/exec respawn, the qtMsgLog message handler, the    *)
(* screen filter and the window-to-screen loop of main().                  *)
(*                                                                         *)
(* Processes are the slots 1..MaxProcs of the process table. Slot 1 is the *)
(* launched compositor; the other slots are filled by fork() in the crash  *)
(* handler. Every per-process variable is a function of the slot.          *)
(*                                                                         *)
(* Signals are the five of signalsToHandle. A signal is raised by the      *)
(* process's own execution (a hardware fault or abort()), and then a       *)
(* handler that returns runs the faulting instruction again, which raises  *)
(* the signal again; or it is sent to the process with kill(2), and then   *)
(* a handler that returns resumes the interrupted code.                    *)
(***************************************************************************)
EXTENDS Integers, Sequences, FiniteSets, TLC

\* ------------------------------------------------------------------ bounds
MaxProcs == 3         \* slots of the process table (fork fails when full)
MaxForks == 1         \* fork() calls that succeed in a run of the whole model
MaxScreens == 2       \* enumerated screens
MaxWindows == 2       \* QWindow children of the QML root object
MaxNames == 2         \* values given to --screen
MaxRecords == 1       \* records logged from the runtime loop
MaxFaults == 2        \* signals raised by faults or sent from outside
MaxFunctionLen == 62  \* bytes of the longest context.function

\* --------------------------------------------------------------- constants
Procs == 1..MaxProcs
signalsToHandle == <<"SIGILL", "SIGABRT", "SIGFPE", "SIGSEGV", "SIGBUS">>
Signals == {signalsToHandle[i] : i \in DOMAIN signalsToHandle}
MsgTypes == {"debug", "info", "warning", "critical", "fatal"}
\* The inputs of the whole model: the signals that faults raise (abort() adds
\* SIGABRT) and the severities the runtime loop logs with.
FaultSignals == {"SIGSEGV"}
\* The signals another process sends with kill(2).
SentSignals == {"SIGSEGV", "SIGBUS"}
RuntimeTypes == {"warning", "fatal"}
\* The sets of signals whose sigaction() call fails, and the paths --log names.
SigactionFailures == {{}, {"SIGSEGV"}, {"SIGABRT"}}
WritablePath == "/tmp/grefsen.log"
LogPaths == {WritablePath, "/proc/grefsen.log"}
ExePath == "/usr/bin/grefsen"
EXIT_FAILURE == 1
SIGKILL == 9

\* A process's exit status is the low byte of the value it exits with.
ExitCode(v) == v % 256

\* ------------------------------------------------------- names and screens
\* A name is a sequence of characters; Qt::CaseInsensitive compares the
\* case-folded characters.
ToLower(c) == CASE c = "H" -> "h" [] c = "E" -> "e" [] OTHER -> c
Fold(name) == [i \in DOMAIN name |-> ToLower(name[i])]
Names == {<<"H", "1">>, <<"h", "1">>, <<"e", "1">>, <<"H">>}

\* QStringList::contains(str, Qt::CaseInsensitive)
ContainsCS(list, str) == \E i \in DOMAIN list : list[i] = str
Contains(list, str) == \E i \in DOMAIN list : Fold(list[i]) = Fold(str)

\* foreach (QScreen *scr, screens) if (scrNames.contains(...)) keepers << scr
Keepers(scrs, scrNames) == SelectSeq(scrs, LAMBDA scr : Contains(scrNames, scr.name))

\* The geometry of the screen enumerated i-th: a rectangle <<x, y, w, h>>.
ScreenGeometry(i) == <<(i - 1) * 800, 0, 800, 600>>
NaturalGeometry == <<0, 0, 100, 100>>

SeqsUpTo(S, n) == UNION {[1..k -> S] : k \in 0..n}

\* The screens of the display subsystem: the i-th has id i (its QScreen *).
MakeScreens(nm) ==
  [i \in DOMAIN nm |-> [id |-> i, name |-> nm[i], geometry |-> ScreenGeometry(i)]]
EnumeratedScreens(n) == {MakeScreens(nm) : nm \in SeqsUpTo(Names, n)}

\* A window before main() touches it.
FreshWindow == [screen |-> 0, geometry |-> NaturalGeometry, visibility |-> "hidden"]

\* The command line: --respawn, --log <file>, --screen <name>..., --window.
\* log is the path, "" when the option is not given.
NoArgs == [respawn |-> FALSE, log |-> "", screen |-> <<>>, window |-> FALSE]

VARIABLES
  pc,                     \* where each process is ("none": free slot)
  args,                   \* the parsed command line of each process
  image,                  \* the executable each process runs
  grefsonExecutablePath,  \* static QByteArray grefsonExecutablePath
  grefsonPID,             \* static qint64 grefsonPID
  signalHandlerStack,     \* static void *signalHandlerStack: "null" | "heap"
  altStack,               \* the alternate signal stack is registered
  disp,                   \* the disposition of each signal: "dfl" | "handler"
  trig,                   \* the argument of the running signalHandler
  sent,                   \* that signal was sent by kill(2), not raised by a fault
  forkPid,                \* pid_t pid of the running signalHandler
  ptracer,                \* the pid allowed to trace the process (prctl)
  logFilePath,            \* static QString logFilePath
  msgHandler,             \* "default" | "qtMsgLog"
  logOpen,                \* log.isOpen() of qtMsgLog's static QFile
  logBuf,                 \* records in the QFile's write buffer
  logFile,                \* the records in the log file on disk
  stderrOut,              \* what was written to the standard error stream
  screens,                \* QList<QScreen *> screens of main()
  windowed,               \* bool windowed of main()
  windows,                \* QList<QWindow *> windows of main()
  windowIter,             \* windowIter of main() (an index, Len+1 is end())
  screenIter,             \* screenIter of main()
  exitStatus,             \* the status of a process that exited
  termSig,                \* the signal that terminated a process
  envScreens,             \* what QGuiApplication::screens() returns
  envWindows,             \* how many QWindow children main.qml creates
  record,                 \* the arguments of the qtMsgLog call being rendered
  line,                   \* the bytes its log.write() calls produce
  nLogs,                  \* how many records were logged from the runtime loop
  nFaults,                \* how many faults were raised
  entries,                \* history: signals that entered signalHandler
  nested,                 \* history: handler entries made inside the handler
  pairs,                  \* history: the (window, screen) pairs of the loop
  kills,                  \* history: the kill() calls made
  execs,                  \* history: the execl() calls that succeeded
  forks,                  \* history: the fork() calls that succeeded
  idWrites,               \* history: assignments to the process identity
  installed,              \* history: signals whose sigaction() succeeded
  logged,                 \* history: the records passed to qtMsgLog
  events                  \* history: the order of main()'s steps

vars == <<pc, args, image, grefsonExecutablePath, grefsonPID, signalHandlerStack,
          altStack, disp, trig, sent, forkPid, ptracer, logFilePath, msgHandler, logOpen, logBuf,
          logFile,
          stderrOut, screens, windowed, windows, windowIter, screenIter,
          exitStatus, termSig, envScreens, envWindows, record, line, nLogs, nFaults, entries,
          nested,
          pairs, kills, execs, forks, idWrites, installed, logged, events>>

idVars == <<grefsonExecutablePath, grefsonPID, idWrites>>
sigVars == <<signalHandlerStack, altStack, disp>>
handlerVars == <<trig, sent, forkPid, ptracer>>
fmtVars == <<record, line>>
sinkVars == <<logOpen, logBuf, logFile, stderrOut, logged>>
displayVars == <<screens, windowed, windows, windowIter, screenIter, pairs>>
envVars == <<envScreens, envWindows, fmtVars, nFaults>>
termVars == <<exitStatus, termSig>>
crashVars == <<entries, nested, kills, execs, forks, installed>>

\* ------------------------------------------------------------ the log sink
\* A record: its severity, its text and the number formatted into it.
Rec(type, text, n) == [type |-> type, text |-> text, n |-> n]

\* qtMsgLog up to the abort: ls is the static QFile (open, write buffer, disk).
\* log.open() succeeds on a writable path; full: whether the write fills the
\* QFile's buffer, which then goes to disk. A write on a file that is not
\* open fails and the record is dropped.
QtMsgLogWrite(ls, rec, path, full) ==
  LET openOk == path = WritablePath
      opened == ls.open \/ openOk
      file0 == IF ~ls.open /\ openOk THEN <<>> ELSE ls.file
      buf1 == IF opened THEN Append(ls.buf, rec) ELSE ls.buf
  IN IF opened /\ full
     THEN [open |-> TRUE, buf |-> <<>>, file |-> file0 \o buf1]
     ELSE [open |-> opened, buf |-> buf1, file |-> file0]

RECURSIVE LogAll(_, _, _, _)
LogAll(ls, recs, path, full) ==
  IF recs = <<>> THEN ls
  ELSE LogAll(QtMsgLogWrite(ls, Head(recs), path, full), Tail(recs), path, full)

\* ~QFile at exit(): close() writes the buffer out.
CloseLog(ls) == [open |-> FALSE, buf |-> <<>>, file |-> ls.file \o ls.buf]

\* qDebug/qWarning/... of process p for each of recs, through the installed
\* message handler; atExit: the process then returns from main().
Emit(p, recs, full, atExit) ==
  LET ls0 == [open |-> logOpen[p], buf |-> logBuf[p], file |-> logFile]
      ls1 == IF msgHandler[p] = "qtMsgLog" THEN LogAll(ls0, recs, logFilePath[p], full) ELSE ls0
      ls == IF atExit THEN CloseLog(ls1) ELSE ls1
  IN /\ logOpen' = [logOpen EXCEPT ![p] = ls.open]
     /\ logBuf' = [logBuf EXCEPT ![p] = ls.buf]
     /\ logFile' = ls.file
     /\ stderrOut' = IF msgHandler[p] = "qtMsgLog" THEN stderrOut
                     ELSE stderrOut \cup {<<p, recs[i]>> : i \in DOMAIN recs}
     /\ logged' = IF msgHandler[p] = "qtMsgLog" THEN [logged EXCEPT ![p] = @ \o recs]
                  ELSE logged

\* ------------------------------------------------- qtMsgLog: the rendering
\* Text is a sequence of one-character strings.
BufSize == 64         \* char buf[64]
SecondsWidth4 == 2 + 2
SecondsWidth == 6     \* %6lld
MillisWidth == 3      \* %03lld
DigitChar(d) == <<"0", "1", "2", "3", "4", "5", "6", "7", "8", "9">>[d + 1]
RECURSIVE Digits(_)
\* %lld of a non-negative value.
Digits(n) == IF n < 10 THEN <<DigitChar(n)>> ELSE Append(Digits(n \div 10), DigitChar(n % 10))
Fill(ch, n) == [i \in 1..n |-> ch]
\* A minimum field width: printf pads on the left and never cuts.
PadLeft(str, w, ch) == IF Len(str) >= w THEN str ELSE Fill(ch, w - Len(str)) \o str
\* snprintf(buf, size, ...) followed by log.write(buf): at most size - 1 bytes.
Snprintf(size, str) == IF Len(str) < size THEN str ELSE SubSeq(str, 1, size - 1)
\* Lines 121-137.
TypeChar(type) ==
  CASE type = "debug" -> "d"
    [] type = "info" -> "i"
    [] type = "warning" -> "W"
    [] type = "critical" -> "!"
    [] type = "fatal" -> "F"
\* Lines 139-141: "[%6lld.%03lld %c] " of ts / 1000, ts % 1000, typeChar.
Prefix(ts, type) ==
  Snprintf(BufSize,
           <<"[">> \o PadLeft(Digits(ts \div 1000), SecondsWidth, " ") \o <<".">>
             \o PadLeft(Digits(ts % 1000), MillisWidth, "0")
             \o <<" ", TypeChar(type), "]", " ">>)
\* Lines 142-145: "%s:%d: " of context.function, context.line, when
\* context.function is not null.
Origin(rec) ==
  IF rec.hasFunction
  THEN Snprintf(BufSize, rec.function \o <<":">> \o Digits(rec.line) \o <<":", " ">>)
  ELSE <<>>
\* Lines 139-147: what the four log.write() calls produce for one record.
QtMsgLogLine(rec) == Prefix(rec.ts, rec.type) \o Origin(rec) \o rec.msg \o <<"\n">>

\* The records rendered: elapsed milliseconds, severities, origins, messages.
Elapsed == {0, 7, 999, 1000, 1234, 59999, 999999999, 1000000000}
Functions == {<<"f", "o", "o">>, <<>>, Fill("g", MaxFunctionLen)}
Messages == {<<"b", "a", "r">>, <<>>}
NoFunction == <<>>
Records ==
  {[ts |-> t, type |-> ty, hasFunction |-> TRUE, function |-> f, line |-> 10, msg |-> m] :
     t \in Elapsed, ty \in MsgTypes, f \in Functions, m \in Messages}
  \cup
  {[ts |-> t, type |-> ty, hasFunction |-> FALSE, function |-> NoFunction, line |-> 0, msg |-> m] :
     t \in Elapsed, ty \in MsgTypes, m \in Messages}
NoRecord ==
  [ts |-> 0, type |-> "debug", hasFunction |-> FALSE, function |-> NoFunction, line |-> 0,
   msg |-> <<>>]
\* No call of qtMsgLog is being rendered.
FormatIdle == record = NoRecord /\ line = <<>>

\* ------------------------------------------------------------------- Init
InitWith(launchArgs, scrs, wins) ==
  /\ pc = [p \in Procs |-> IF p = 1 THEN "start" ELSE "none"]
  /\ args \in {[p \in Procs |-> IF p = 1 THEN a ELSE NoArgs] : a \in launchArgs}
  /\ image = [p \in Procs |-> IF p = 1 THEN ExePath ELSE ""]
  /\ grefsonExecutablePath = [p \in Procs |-> ""]
  /\ grefsonPID = [p \in Procs |-> 0]
  /\ signalHandlerStack = [p \in Procs |-> "null"]
  /\ altStack = [p \in Procs |-> FALSE]
  /\ disp = [p \in Procs |-> [s \in Signals |-> "dfl"]]
  /\ trig = [p \in Procs |-> "none"]
  /\ sent = [p \in Procs |-> FALSE]
  /\ forkPid = [p \in Procs |-> 0]
  /\ ptracer = [p \in Procs |-> 0]
  /\ logFilePath = [p \in Procs |-> ""]
  /\ msgHandler = [p \in Procs |-> "default"]
  /\ logOpen = [p \in Procs |-> FALSE]
  /\ logBuf = [p \in Procs |-> <<>>]
  /\ logFile = <<>>
  /\ stderrOut = {}
  /\ screens = [p \in Procs |-> <<>>]
  /\ windowed = [p \in Procs |-> FALSE]
  /\ windows = [p \in Procs |-> <<>>]
  /\ windowIter = [p \in Procs |-> 0]
  /\ screenIter = [p \in Procs |-> 0]
  /\ exitStatus = [p \in Procs |-> -1]
  /\ termSig = [p \in Procs |-> "none"]
  /\ envScreens \in scrs
  /\ envWindows \in wins
  /\ nLogs = 0
  /\ nFaults = 0
  /\ entries = [p \in Procs |-> <<>>]
  /\ nested = {}
  /\ pairs = [p \in Procs |-> <<>>]
  /\ kills = {}
  /\ execs = {}
  /\ forks = {}
  /\ idWrites = [p \in Procs |-> 0]
  /\ installed = [p \in Procs |-> {}]
  /\ logged = [p \in Procs |-> <<>>]
  /\ events = [p \in Procs |-> <<>>]

\* ------------------------------------------------------------------ main()
\* Lines 168-186: the timer, the environment, the QGuiApplication, the
\* process identity, windowed = false and the enumerated screens.
CaptureIdentity(p) ==
  /\ pc[p] = "start"
  /\ pc' = [pc EXCEPT ![p] = "parse"]
  /\ grefsonExecutablePath' = [grefsonExecutablePath EXCEPT ![p] = image[p]]
  /\ grefsonPID' = [grefsonPID EXCEPT ![p] = p]
  /\ idWrites' = [idWrites EXCEPT ![p] = @ + 1]
  /\ windowed' = [windowed EXCEPT ![p] = FALSE]
  /\ screens' = [screens EXCEPT ![p] = envScreens]
  /\ events' = [events EXCEPT ![p] = Append(@, "identity")]
  /\ UNCHANGED <<args, image, sigVars, handlerVars, logFilePath, msgHandler, sinkVars, windows,
                 windowIter, screenIter, pairs, termVars, envVars, nLogs, crashVars>>

\* sa.sa_flags: what the kernel does to the disposition of s when the
\* handler is entered (SA_RESETHAND).
sa_flags_ResetKeep(d, s) == d
sa_flags_Reset(d, s) == [d EXCEPT ![s] = "dfl"]

\* setupSignalHandler(): the outcome for the stack, the registration, the
\* dispositions and the warnings, given which of its calls fail.
SetupSignalHandlerStopsAtFailure(d, mallocOk, altOk, emptyOk, failing) ==
  LET first == {i \in DOMAIN signalsToHandle :
                  /\ signalsToHandle[i] \in failing
                  /\ \A j \in 1..(i - 1) : signalsToHandle[j] \notin failing}
      ok == mallocOk /\ altOk /\ emptyOk
  IN [stack |-> IF mallocOk THEN "heap" ELSE "null", alt |-> mallocOk /\ altOk,
      disp |-> [s \in Signals |->
                  IF ok /\ \E i \in DOMAIN signalsToHandle :
                             signalsToHandle[i] = s /\ \A j \in first : i < j
                  THEN "handler" ELSE d[s]],
      warns |-> IF ~mallocOk
                THEN <<Rec("warning", "Could not allocate space for alternative signal stack", 0)>>
                ELSE IF ~altOk
                THEN <<Rec("warning", "Failed to set alternative signal stack", 0)>>
                ELSE IF ~emptyOk
                THEN <<Rec("warning", "Failed to empty signal set", 0)>>
                ELSE SelectSeq([i \in DOMAIN signalsToHandle |->
                                  Rec("warning", "Failed to install signal handler", i)],
                               LAMBDA r : r.n \in first)]
SetupSignalHandlerNoReturn(d, mallocOk, altOk, emptyOk, failing) ==
  [stack |-> IF mallocOk THEN "heap" ELSE "null", alt |-> mallocOk /\ altOk,
   disp |-> [s \in Signals |-> IF s \in failing THEN d[s] ELSE "handler"],
   warns |-> IF ~mallocOk
             THEN <<Rec("warning", "Could not allocate space for alternative signal stack", 0)>>
             ELSE IF ~altOk
             THEN <<Rec("warning", "Failed to set alternative signal stack", 0)>>
             ELSE IF ~emptyOk
             THEN <<Rec("warning", "Failed to empty signal set", 0)>>
             ELSE <<>>]
SetupSignalHandler(d, mallocOk, altOk, emptyOk, failing) ==
  IF ~mallocOk
  THEN [stack |-> "null", alt |-> FALSE, disp |-> d,
        warns |-> <<Rec("warning", "Could not allocate space for alternative signal stack", 0)>>]
  ELSE IF ~altOk
  THEN [stack |-> "heap", alt |-> FALSE, disp |-> d,
        warns |-> <<Rec("warning", "Failed to set alternative signal stack", 0)>>]
  ELSE IF ~emptyOk
  THEN [stack |-> "heap", alt |-> TRUE, disp |-> d,
        warns |-> <<Rec("warning", "Failed to empty signal set", 0)>>]
  ELSE [stack |-> "heap", alt |-> TRUE,
        disp |-> [s \in Signals |-> IF s \in failing THEN d[s] ELSE "handler"],
        warns |-> SelectSeq([i \in DOMAIN signalsToHandle |->
                               Rec("warning", "Failed to install signal handler", i)],
                            LAMBDA r : signalsToHandle[r.n] \in failing)]

\* if (parser.isSet(respawnOption))
RespawnSetNever(p) == FALSE
RespawnSet(p) == args[p].respawn

\* Lines 216-218: parser.process(app); if (respawn) setupSignalHandler().
ProcessOptions(p) ==
  /\ pc[p] = "parse"
  /\ pc' = [pc EXCEPT ![p] = "cfg_log"]
  /\ IF RespawnSet(p)
     THEN \E mallocOk, altOk, emptyOk, full \in BOOLEAN, failing \in SigactionFailures :
            LET r == SetupSignalHandler(disp[p], mallocOk, altOk, emptyOk, failing)
            IN /\ signalHandlerStack' = [signalHandlerStack EXCEPT ![p] = r.stack]
               /\ altStack' = [altStack EXCEPT ![p] = r.alt]
               /\ disp' = [disp EXCEPT ![p] = r.disp]
               /\ installed' = [installed EXCEPT ![p] = {s \in Signals : r.disp[s] = "handler"}]
               /\ Emit(p, r.warns, full, FALSE)
               /\ events' = [events EXCEPT ![p] = Append(@, "crashguard")]
     ELSE UNCHANGED <<sigVars, sinkVars, events, installed>>
  /\ UNCHANGED <<args, image, idVars, handlerVars, logFilePath, msgHandler, displayVars, termVars,
                 envVars, nLogs, entries, nested, kills, execs, forks>>

\* Lines 219-224: the config directory; if (log) qInstallMessageHandler(qtMsgLog).
ConfigureLog(p) ==
  /\ pc[p] = "cfg_log"
  /\ pc' = [pc EXCEPT ![p] = "screens"]
  /\ IF args[p].log # ""
     THEN /\ logFilePath' = [logFilePath EXCEPT ![p] = args[p].log]
          /\ msgHandler' = [msgHandler EXCEPT ![p] = "qtMsgLog"]
          /\ events' = [events EXCEPT ![p] = Append(@, "logsink")]
     ELSE UNCHANGED <<logFilePath, msgHandler, events>>
  /\ UNCHANGED <<args, image, idVars, sigVars, handlerVars, sinkVars, displayVars,
                 termVars, envVars, nLogs, crashVars>>

\* The warnings of lines 232-234.
NoScreenWarnings(scrNames, scrs) ==
  <<Rec("warning", "None of the screens exist; available screens:", Len(scrNames))>>
    \o [i \in DOMAIN scrs |-> Rec("warning", "   ", scrs[i].id)]

\* if (keepers.isEmpty())
NoKeepersIgnored(keepers) == FALSE
NoKeepers(keepers) == keepers = <<>>

\* Lines 225-238: keep the screens named by --screen; return -1 if none is.
FilterScreens(p) ==
  /\ pc[p] = "screens"
  /\ IF args[p].screen # <<>>
     THEN LET keepers == Keepers(screens[p], args[p].screen)
          IN IF NoKeepers(keepers)
             THEN /\ \E full \in BOOLEAN :
                       Emit(p, NoScreenWarnings(args[p].screen, screens[p]), full, TRUE)
                  /\ pc' = [pc EXCEPT ![p] = "exited"]
                  /\ exitStatus' = [exitStatus EXCEPT ![p] = ExitCode(-1)]
                  /\ UNCHANGED screens
             ELSE /\ screens' = [screens EXCEPT ![p] = keepers]
                  /\ pc' = [pc EXCEPT ![p] = "windowed"]
                  /\ UNCHANGED <<sinkVars, exitStatus>>
     ELSE /\ pc' = [pc EXCEPT ![p] = "windowed"]
          /\ UNCHANGED <<screens, sinkVars, exitStatus>>
  /\ events' = [events EXCEPT ![p] = Append(@, "filter")]
  /\ UNCHANGED <<args, image, idVars, sigVars, handlerVars, logFilePath, msgHandler, windowed, windows,
                 windowIter, screenIter, pairs, termSig, envVars, nLogs, crashVars>>

\* Lines 269-275: setScreen, then showNormal or setGeometry + showFullScreen.
PlaceWindowAlwaysFull(w, scr, isWindowed) ==
  [screen |-> scr.id, geometry |-> scr.geometry, visibility |-> "fullscreen"]
PlaceWindow(w, scr, isWindowed) ==
  IF isWindowed
  THEN [w EXCEPT !.screen = scr.id, !.visibility = "normal"]
  ELSE [w EXCEPT !.screen = scr.id, !.geometry = scr.geometry, !.visibility = "fullscreen"]

\* Line 277: ++screenIter.
AdvanceScreenStuck(it) == it
AdvanceScreen(it) == it + 1

\* Lines 266-278: the loop, from the iterators wi and si on; prs collects the
\* (window, screen) pairs it makes.
RECURSIVE AssignLoop(_, _, _, _, _, _)
AssignLoop(wins, scrs, wi, si, isWindowed, prs) ==
  IF wi <= Len(wins) /\ si <= Len(scrs)
  THEN AssignLoop([wins EXCEPT ![wi] = PlaceWindow(@, scrs[si], isWindowed)], scrs,
                  wi + 1, AdvanceScreen(si), isWindowed, Append(prs, <<wi, scrs[si].id>>))
  ELSE [windows |-> wins, windowIter |-> wi, screenIter |-> si, pairs |-> prs]

\* Lines 239-280: windowed = true under --window; screenCheck() (qDebug of
\* each screen); the QML engine loads main.qml and windows = the QWindow
\* children of its root; the loop; then app.exec() runs the event loop.
PlaceWindows(p) ==
  /\ pc[p] = "windowed"
  /\ pc' = [pc EXCEPT ![p] = "exec"]
  /\ \E full \in BOOLEAN :
       Emit(p, [i \in DOMAIN screens[p] |-> Rec("debug", "Screen", screens[p][i].id)],
            full, FALSE)
  /\ LET w == IF args[p].window THEN TRUE ELSE windowed[p]
         r == AssignLoop([i \in 1..envWindows |-> FreshWindow], screens[p], 1, 1, w, <<>>)
     IN /\ windowed' = [windowed EXCEPT ![p] = w]
        /\ windows' = [windows EXCEPT ![p] = r.windows]
        /\ windowIter' = [windowIter EXCEPT ![p] = r.windowIter]
        /\ screenIter' = [screenIter EXCEPT ![p] = r.screenIter]
        /\ pairs' = [pairs EXCEPT ![p] = r.pairs]
  /\ events' = [events EXCEPT ![p] = Append(@, "assign")]
  /\ UNCHANGED <<args, image, idVars, sigVars, handlerVars, logFilePath, msgHandler, screens,
                 termVars, envVars, nLogs, crashVars>>

\* app.exec() returns 0 and main() returns it: exit() closes the log file.
Quit(p) ==
  /\ pc[p] = "exec"
  /\ pc' = [pc EXCEPT ![p] = "exited"]
  /\ exitStatus' = [exitStatus EXCEPT ![p] = ExitCode(0)]
  /\ Emit(p, <<>>, FALSE, TRUE)
  /\ UNCHANGED <<args, image, idVars, sigVars, handlerVars, logFilePath, msgHandler, displayVars,
                 termSig, envVars, nLogs, crashVars, events>>

\* ------------------------------------------------- the display-only model
AssignArgs ==
  {[respawn |-> FALSE, log |-> "", screen |-> n, window |-> w] :
     n \in SeqsUpTo(Names, MaxNames), w \in BOOLEAN}

InitAssign ==
  /\ InitWith(AssignArgs, EnumeratedScreens(MaxScreens), 0..MaxWindows)
  /\ FormatIdle

NextAssign ==
  \/ CaptureIdentity(1)
  \/ ProcessOptions(1)
  \/ ConfigureLog(1)
  \/ FilterScreens(1)
  \/ PlaceWindows(1)

SpecAssign == InitAssign /\ [][NextAssign]_vars

\* -------------------------------------------- the rendering of single records
\* qtMsgLog renders the record it was called with.
QtMsgLogFormat ==
  /\ line = <<>>
  /\ line' = QtMsgLogLine(record)
  /\ UNCHANGED <<pc, args, image, idVars, sigVars, handlerVars, logFilePath, msgHandler,
                 sinkVars, displayVars, termVars, envScreens, envWindows, record, nFaults,
                 nLogs, crashVars, events>>

InitFormat ==
  /\ InitWith({NoArgs}, {MakeScreens(<<<<"H", "1">>>>)}, {0})
  /\ record \in Records
  /\ line = <<>>

NextFormat == QtMsgLogFormat

SpecFormat == InitFormat /\ [][NextFormat]_vars

\* ------------------------------------------------------ signals and crashes
HandlerPCs == {"h_fork", "h_break", "h_prctl", "h_waitpid", "c_kill", "c_execl", "c_exit"}
DeadPCs == {"exited", "signaled"}
Alive(p) == pc[p] \notin DeadPCs \cup {"none"}

\* Signal s is delivered to process p, raised by a faulting instruction or
\* by abort(), or (bySend) sent with kill(2) from outside: under the handler
\* disposition the kernel applies sa_flags and signalHandler(s) starts (on
\* the alternate stack); under the default disposition the process is
\* terminated by s.
Deliver(p, s, inHandler, bySend) ==
  IF disp[p][s] = "handler"
  THEN /\ disp' = [disp EXCEPT ![p] = sa_flags_Reset(@, s)]
       /\ pc' = [pc EXCEPT ![p] = "h_fork"]
       /\ trig' = [trig EXCEPT ![p] = s]
       /\ sent' = [sent EXCEPT ![p] = bySend]
       /\ entries' = [entries EXCEPT ![p] = Append(@, s)]
       /\ nested' = IF inHandler
                    THEN nested \cup {[proc |-> p, outer |-> trig[p], inner |-> s]}
                    ELSE nested
       /\ UNCHANGED termSig
  ELSE /\ pc' = [pc EXCEPT ![p] = "signaled"]
       /\ termSig' = [termSig EXCEPT ![p] = s]
       /\ UNCHANGED <<disp, trig, sent, entries, nested>>

\* A fault in the runtime loop or in the crash handler.
Fault(p, s) ==
  /\ pc[p] \in {"exec"} \cup HandlerPCs
  /\ nFaults < MaxFaults
  /\ nFaults' = nFaults + 1
  /\ Deliver(p, s, pc[p] \in HandlerPCs, FALSE)
  /\ UNCHANGED <<args, image, idVars, signalHandlerStack, altStack, forkPid, ptracer,
                 logFilePath, msgHandler, sinkVars, displayVars, exitStatus, envScreens, envWindows, fmtVars,
                 nLogs, kills, execs, forks, installed, events>>

\* Another process sends s to p, which is in the runtime loop, with kill(2).
ExternalSignal(p, s) ==
  /\ pc[p] = "exec"
  /\ nFaults < MaxFaults
  /\ nFaults' = nFaults + 1
  /\ Deliver(p, s, FALSE, TRUE)
  /\ UNCHANGED <<args, image, idVars, signalHandlerStack, altStack, forkPid, ptracer,
                 logFilePath, msgHandler, sinkVars, displayVars, exitStatus, envScreens, envWindows, fmtVars,
                 nLogs, kills, execs, forks, installed, events>>

AbortsNever(type) == FALSE
\* Lines 148-149: if (type == QtFatalMsg) abort().
Aborts(type) == type = "fatal"

\* The runtime loop logs a record. Qt aborts after a fatal record if the
\* handler returns; qtMsgLog aborts itself (line 149).
RuntimeLog(p, type) ==
  /\ pc[p] = "exec"
  /\ nLogs < MaxRecords
  /\ nLogs' = nLogs + 1
  /\ \E full \in BOOLEAN : Emit(p, <<Rec(type, "runtime", nLogs)>>, full, FALSE)
  /\ IF Aborts(type)
     THEN Deliver(p, "SIGABRT", FALSE, FALSE)
     ELSE UNCHANGED <<pc, disp, trig, sent, entries, nested, termSig>>
  /\ UNCHANGED <<args, image, idVars, signalHandlerStack, altStack, forkPid, ptracer,
                 logFilePath, msgHandler, displayVars, exitStatus, envVars, kills, execs, forks, installed, events>>

FreeSlots == {q \in Procs : pc[q] = "none"}

\* Lines 65-66: where the child continues after fork().
ChildEntry == "c_kill"

\* Line 61: fork(). The child is a copy of the parent, in the handler.
\* fork() succeeds at most n times and only while a slot is free.
HandlerForkUpTo(p, n) ==
  /\ pc[p] = "h_fork"
  /\ \/ /\ FreeSlots # {}
        /\ Cardinality(forks) < n
        /\ LET c == CHOOSE q \in FreeSlots : \A r \in FreeSlots : q <= r
               Copy(f) == [f EXCEPT ![c] = f[p]]
           IN /\ pc' = [pc EXCEPT ![p] = "h_prctl", ![c] = ChildEntry]
              /\ forkPid' = [forkPid EXCEPT ![p] = c, ![c] = 0]
              /\ forks' = forks \cup {[parent |-> p, child |-> c]}
              /\ args' = Copy(args)
              /\ image' = Copy(image)
              /\ grefsonExecutablePath' = Copy(grefsonExecutablePath)
              /\ grefsonPID' = Copy(grefsonPID)
              /\ signalHandlerStack' = Copy(signalHandlerStack)
              /\ altStack' = Copy(altStack)
              /\ disp' = Copy(disp)
              /\ trig' = Copy(trig)
              /\ sent' = Copy(sent)
              /\ logFilePath' = Copy(logFilePath)
              /\ msgHandler' = Copy(msgHandler)
              /\ logOpen' = Copy(logOpen)
              /\ logBuf' = Copy(logBuf)
              /\ screens' = Copy(screens)
              /\ windowed' = Copy(windowed)
              /\ windows' = Copy(windows)
              /\ windowIter' = Copy(windowIter)
              /\ screenIter' = Copy(screenIter)
              /\ idWrites' = Copy(idWrites)
              /\ installed' = Copy(installed)
              /\ events' = Copy(events)
              /\ UNCHANGED <<ptracer, nLogs, logFile, stderrOut, logged, pairs, termVars,
                             envVars, entries, nested, kills, execs>>
     \/ /\ pc' = [pc EXCEPT ![p] = "h_break"]
        /\ forkPid' = [forkPid EXCEPT ![p] = -1]
        /\ UNCHANGED <<args, image, idVars, sigVars, trig, sent, ptracer, logFilePath, msgHandler,
                       sinkVars,
                       displayVars, termVars, envVars, nLogs, crashVars, events>>

HandlerFork(p) == HandlerForkUpTo(p, MaxForks)

\* Lines 63-64 and 76: fork failed and the handler returns. After a signal
\* that was sent, the runtime loop goes on where it was interrupted; after
\* a fault the interrupted instruction (or abort()) raises the signal again.
HandlerReturn(p) ==
  /\ pc[p] = "h_break"
  /\ Len(entries[p]) <= Len(signalsToHandle)
  /\ IF sent[p]
     THEN /\ pc' = [pc EXCEPT ![p] = "exec"]
          /\ trig' = [trig EXCEPT ![p] = "none"]
          /\ sent' = [sent EXCEPT ![p] = FALSE]
          /\ UNCHANGED <<disp, entries, nested, termSig>>
     ELSE Deliver(p, trig[p], FALSE, FALSE)
  /\ UNCHANGED <<args, image, idVars, signalHandlerStack, altStack, forkPid, ptracer,
                 logFilePath, msgHandler, sinkVars, displayVars, exitStatus, envVars, nLogs, kills,
                 execs, forks, installed, events>>

\* The pid given to kill() on line 66.
KillTargetSelf(p) == p
KillTarget(p) == grefsonPID[p]

\* Line 66: kill(grefsonPID, 9). Pid 0 names the caller's process group.
ChildKill(p) ==
  /\ pc[p] = "c_kill"
  /\ LET t == KillTarget(p)
         hit == IF t = 0 THEN {q \in Procs : Alive(q)} ELSE {q \in Procs : q = t /\ Alive(q)}
     IN /\ kills' = kills \cup {[by |-> p, target |-> t, sig |-> SIGKILL]}
        /\ pc' = [q \in Procs |-> IF q \in hit THEN "signaled"
                                  ELSE IF q = p THEN "c_execl" ELSE pc[q]]
        /\ termSig' = [q \in Procs |-> IF q \in hit THEN "SIGKILL" ELSE termSig[q]]
  /\ UNCHANGED <<args, image, idVars, sigVars, handlerVars, logFilePath, msgHandler, sinkVars,
                 displayVars, exitStatus, envVars, nLogs, entries, nested, execs, forks,
                 installed, events>>

\* The path given to execl() on line 68.
ExeclPath(p) == grefsonExecutablePath[p]

\* Lines 67-68: the crash notice on stderr, then execl(path, path, 0). On
\* success the process starts the program at path afresh, without arguments:
\* its memory is new, caught signals go back to the default disposition and
\* the alternate stack is gone.
ChildExecl(p) ==
  /\ pc[p] = "c_execl"
  /\ stderrOut' = stderrOut \cup {<<p, Rec("crashed", trig[p], grefsonPID[p])>>}
  /\ \/ /\ ExeclPath(p) = ExePath
        /\ pc' = [pc EXCEPT ![p] = "start"]
        /\ execs' = execs \cup {[by |-> p, path |-> ExeclPath(p), argv |-> NoArgs]}
        /\ args' = [args EXCEPT ![p] = NoArgs]
        /\ image' = [image EXCEPT ![p] = ExeclPath(p)]
        /\ grefsonExecutablePath' = [grefsonExecutablePath EXCEPT ![p] = ""]
        /\ grefsonPID' = [grefsonPID EXCEPT ![p] = 0]
        /\ idWrites' = [idWrites EXCEPT ![p] = 0]
        /\ signalHandlerStack' = [signalHandlerStack EXCEPT ![p] = "null"]
        /\ altStack' = [altStack EXCEPT ![p] = FALSE]
        /\ disp' = [disp EXCEPT ![p] = [s \in Signals |-> "dfl"]]
        /\ trig' = [trig EXCEPT ![p] = "none"]
        /\ sent' = [sent EXCEPT ![p] = FALSE]
        /\ forkPid' = [forkPid EXCEPT ![p] = 0]
        /\ logFilePath' = [logFilePath EXCEPT ![p] = ""]
        /\ msgHandler' = [msgHandler EXCEPT ![p] = "default"]
        /\ logOpen' = [logOpen EXCEPT ![p] = FALSE]
        /\ logBuf' = [logBuf EXCEPT ![p] = <<>>]
        /\ screens' = [screens EXCEPT ![p] = <<>>]
        /\ windowed' = [windowed EXCEPT ![p] = FALSE]
        /\ windows' = [windows EXCEPT ![p] = <<>>]
        /\ windowIter' = [windowIter EXCEPT ![p] = 0]
        /\ screenIter' = [screenIter EXCEPT ![p] = 0]
        /\ entries' = [entries EXCEPT ![p] = <<>>]
        /\ installed' = [installed EXCEPT ![p] = {}]
        /\ logged' = [logged EXCEPT ![p] = <<>>]
        /\ events' = [events EXCEPT ![p] = <<>>]
        /\ UNCHANGED <<ptracer, nLogs, logFile, pairs, termVars, envVars, nested,
                       kills, forks>>
     \/ /\ pc' = [pc EXCEPT ![p] = "c_exit"]
        /\ UNCHANGED <<args, image, idVars, sigVars, handlerVars, logFilePath, msgHandler,
                       logOpen, logBuf, logFile, logged, displayVars, termVars, envVars, nLogs,
                       crashVars, events>>

\* Line 69: _exit(EXIT_FAILURE) in the child (no exit handlers run).
ChildExit(p) ==
  /\ pc[p] = "c_exit"
  /\ pc' = [pc EXCEPT ![p] = "exited"]
  /\ exitStatus' = [exitStatus EXCEPT ![p] = ExitCode(EXIT_FAILURE)]
  /\ UNCHANGED <<args, image, idVars, sigVars, handlerVars, logFilePath, msgHandler, sinkVars,
                 displayVars, termSig, envVars, nLogs, crashVars, events>>

\* Line 71: prctl(PR_SET_PTRACER, pid).
ParentPrctl(p) ==
  /\ pc[p] = "h_prctl"
  /\ pc' = [pc EXCEPT ![p] = "h_waitpid"]
  /\ ptracer' = [ptracer EXCEPT ![p] = forkPid[p]]
  /\ UNCHANGED <<args, image, idVars, sigVars, trig, sent, forkPid, logFilePath, msgHandler,
                 sinkVars,
                 displayVars, termVars, envVars, nLogs, crashVars, events>>

\* The status of line 73.
ParentExitValue == EXIT_FAILURE

\* Lines 72-73: waitpid(pid, 0, 0) returns when the child has terminated;
\* then _exit(EXIT_FAILURE).
ParentWaitExit(p) ==
  /\ pc[p] = "h_waitpid"
  /\ pc[forkPid[p]] \in DeadPCs
  /\ pc' = [pc EXCEPT ![p] = "exited"]
  /\ exitStatus' = [exitStatus EXCEPT ![p] = ExitCode(ParentExitValue)]
  /\ UNCHANGED <<args, image, idVars, sigVars, handlerVars, logFilePath, msgHandler, sinkVars,
                 displayVars, termSig, envVars, nLogs, crashVars, events>>

\* ---------------------------------------------------------- the whole model
LaunchArgs ==
  {[respawn |-> r, log |-> l, screen |-> n, window |-> w] :
     r \in BOOLEAN, l \in {""} \cup LogPaths, n \in {<<>>, <<<<"H">>>>}, w \in {FALSE}}

Init ==
  /\ InitWith(LaunchArgs, {MakeScreens(<<<<"H", "1">>, <<"e", "1">>>>)}, {MaxWindows})
  /\ FormatIdle

Next ==
  \E p \in Procs :
    \/ CaptureIdentity(p)
    \/ ProcessOptions(p)
    \/ ConfigureLog(p)
    \/ FilterScreens(p)
    \/ PlaceWindows(p)
    \/ Quit(p)
    \/ \E type \in RuntimeTypes : RuntimeLog(p, type)
    \/ \E s \in FaultSignals : Fault(p, s)
    \/ \E s \in SentSignals : ExternalSignal(p, s)
    \/ HandlerFork(p)
    \/ HandlerReturn(p)
    \/ ChildKill(p)
    \/ ChildExecl(p)
    \/ ChildExit(p)
    \/ ParentPrctl(p)
    \/ ParentWaitExit(p)

Spec == Init /\ [][Next]_vars

\* ------------------------------------- faults under --respawn, up to two forks
\* The signals that faults raise when two forks are followed.
NestedSignals == {"SIGSEGV", "SIGBUS"}
NestedArgs == {[respawn |-> TRUE, log |-> "", screen |-> <<>>, window |-> FALSE]}

InitNested ==
  /\ InitWith(NestedArgs, {MakeScreens(<<<<"H", "1">>>>)}, {1})
  /\ FormatIdle

NextNested ==
  \E p \in Procs :
    \/ CaptureIdentity(p)
    \/ ProcessOptions(p)
    \/ ConfigureLog(p)
    \/ FilterScreens(p)
    \/ PlaceWindows(p)
    \/ \E s \in NestedSignals : Fault(p, s)
    \/ HandlerForkUpTo(p, MaxProcs - 1)
    \/ HandlerReturn(p)
    \/ ChildKill(p)
    \/ ChildExecl(p)
    \/ ChildExit(p)
    \/ ParentPrctl(p)
    \/ ParentWaitExit(p)

SpecNested == InitNested /\ [][NextNested]_vars

\* ------------------------------------------------------------- properties
AppPCs == {"start", "parse", "cfg_log", "screens", "windowed", "exec"}
Min(a, b) == IF a <= b THEN a ELSE b
Range(f) == {f[i] : i \in DOMAIN f}

\* Two names are equal when case is ignored: the same length and, position
\* by position, the same letter in either case.
SameLetter(a, b) == a = b \/ {a, b} = {"H", "h"} \/ {a, b} = {"E", "e"}
SameNameIgnoringCase(x, y) ==
  Len(x) = Len(y) /\ \A k \in 1..Len(x) : SameLetter(x[k], y[k])

\* The enumerated screens that some requested name names.
Requested(p) ==
  {i \in DOMAIN envScreens :
     \E j \in DOMAIN args[p].screen : SameNameIgnoringCase(args[p].screen[j], envScreens[i].name)}

\* C1: once the loop of main() is over, its pairs are exactly the first
\* min(|windows|, |screens|) windows with the screens of the same rank, in
\* order, whatever the --window flag; the windows beyond are untouched and
\* the process is in the event loop (no error).
C1_PositionalPairs ==
  \A p \in Procs :
    pc[p] = "exec" =>
      LET n == Min(envWindows, Len(screens[p]))
      IN /\ Len(windows[p]) = envWindows
         /\ Len(pairs[p]) = n
         /\ \A i \in 1..n : pairs[p][i] = <<i, screens[p][i].id>>
         /\ \A i \in 1..envWindows : i > n => windows[p][i] = FreshWindow

C1_Witness ==
  /\ pc[1] = "exec"
  /\ envWindows = 2
  /\ Len(screens[1]) = 1
  /\ Len(envScreens) = 2
  /\ pairs[1] = <<<<1, 2>>>>
  /\ windowed[1]

\* C2: when --screen names are given and no enumerated screen has one of
\* them, the process never reaches the placement of windows or the event
\* loop, assigns no window, keeps no screen list to fall back on, and once
\* the filter has run it has exited with a non-zero status after the warning.
C2_EmptySelectionExits ==
  (args[1].screen # <<>> /\ Requested(1) = {}) =>
    /\ pc[1] \notin {"windowed", "exec"}
    /\ pairs[1] = <<>>
    /\ windows[1] = <<>>
    /\ "filter" \in Range(events[1]) =>
         /\ pc[1] = "exited"
         /\ exitStatus[1] # 0
         /\ \E e \in stderrOut : e[1] = 1 /\ e[2].type = "warning"

C2_Witness ==
  /\ args[1].screen = <<<<"H">>>>
  /\ Len(envScreens) = 2
  /\ envScreens[1].name = <<"H", "1">>
  /\ pc[1] = "exited"
  /\ exitStatus[1] = 255

\* C9: after the filter, without --screen the screens are the enumerated
\* ones unchanged; with --screen they are the enumerated screens that some
\* requested name names when case is ignored, each once, in enumeration order.
C9_FilterKeeps ==
  pc[1] \in {"windowed", "exec"} =>
    IF args[1].screen = <<>>
    THEN screens[1] = envScreens
    ELSE /\ \A i \in DOMAIN screens[1] : screens[1][i] = envScreens[screens[1][i].id]
         /\ \A i, j \in DOMAIN screens[1] : i < j => screens[1][i].id < screens[1][j].id
         /\ {screens[1][i].id : i \in DOMAIN screens[1]} = Requested(1)

C9_Witness ==
  /\ pc[1] = "windowed"
  /\ args[1].screen = <<<<"e", "1">>, <<"h", "1">>>>
  /\ Len(envScreens) = 2
  /\ envScreens[1].name = <<"H", "1">>
  /\ envScreens[2].name = <<"H">>
  /\ Len(screens[1]) = 1
  /\ screens[1][1].name = <<"H", "1">>

\* C10: in the event loop every paired window is on its screen; under
\* --window it is shown normal with its own geometry, otherwise it has the
\* screen's geometry and is fullscreen; a window in no pair is still hidden
\* with its own geometry.
C10_Placement ==
  pc[1] = "exec" =>
    /\ windowed[1] = args[1].window
    /\ \A i \in DOMAIN pairs[1] :
         LET w == windows[1][pairs[1][i][1]]
             scr == envScreens[pairs[1][i][2]]
         IN /\ w.screen = scr.id
            /\ IF args[1].window
               THEN w.visibility = "normal" /\ w.geometry = NaturalGeometry
               ELSE w.visibility = "fullscreen" /\ w.geometry = scr.geometry
    /\ \A k \in DOMAIN windows[1] :
         k \notin {pairs[1][i][1] : i \in DOMAIN pairs[1]} =>
           windows[1][k].visibility = "hidden" /\ windows[1][k].geometry = NaturalGeometry

C10_Witness ==
  /\ pc[1] = "exec"
  /\ args[1].window
  /\ Len(pairs[1]) = 1
  /\ envWindows = 2
  /\ windows[1][1].visibility = "normal"
  /\ windows[1][2].visibility = "hidden"

\* ------------------------------------------------- properties of the crash guard
\* p is a process in which a signal entered signalHandler.
Trapped(p) == entries[p] # <<>>
Children(p) == {f.child : f \in {g \in forks : g.parent = p}}
\* A child forked by p's handler has exec'ed the executable.
RespawnedBy(p) == \E e \in execs : e.by \in Children(p) /\ e.path = ExePath
FailureTermination(p) == pc[p] = "signaled" \/ (pc[p] = "exited" /\ exitStatus[p] # 0)
\* Some process can still take a step of the handler.
HandlerRunning ==
  \E q \in Procs :
    \/ pc[q] \in HandlerPCs \ {"h_waitpid"}
    \/ pc[q] = "h_waitpid" /\ pc[forkPid[q]] \in DeadPCs

RECURSIVE Descends(_, _, _)
\* q descends from o by at most n forks.
Descends(q, o, n) ==
  n > 0 /\ \E f \in forks : f.child = q /\ (f.parent = o \/ Descends(f.parent, o, n - 1))

\* C3: a process that trapped a signal never runs application code again,
\* and once no handler step is left either a child of its handler has
\* exec'ed the executable or the process has terminated by a signal or with
\* a non-zero status.
C3_RespawnOrFailure ==
  \A p \in Procs :
    Trapped(p) =>
      /\ pc[p] \notin AppPCs
      /\ ~HandlerRunning => (RespawnedBy(p) \/ FailureTermination(p))

\* C4: signalHandler is never entered while signalHandler is running, that
\* is, a signal raised inside the handler always takes the default
\* disposition.
C4_NeverReentered == nested = {}

\* C5: the identity is assigned at most once per process image; every
\* kill() names a process other than the caller, namely the ancestor that
\* captured its own pid at startup; every execl() that succeeded was given
\* the path that ancestor captured, which is the executable it runs.
C5_IdentityUsed ==
  /\ \A p \in Procs : idWrites[p] <= 1
  /\ \A p \in Procs :
       (installed[p] # {} \/ altStack[p] \/ Children(p) # {}) =>
         /\ idWrites[p] = 1
         /\ events[p][1] = "identity"
  /\ \A k \in kills :
       /\ k.target # k.by
       /\ k.sig = SIGKILL
       /\ Descends(k.by, k.target, MaxProcs)
       /\ grefsonPID[k.target] = k.target
  /\ \A e \in execs :
       \E o \in Procs :
         /\ Descends(e.by, o, MaxProcs)
         /\ grefsonPID[o] = o
         /\ grefsonExecutablePath[o] = e.path
         /\ image[o] = e.path

C5_Witness ==
  /\ \E k \in kills : k.by = 2 /\ k.target = 1
  /\ \E e \in execs : e.by = 2
  /\ pc[1] = "signaled"

\* C6: once a fatal record was passed to qtMsgLog the process runs no
\* application code, and when it has terminated the log file holds the record.
C6_FatalDurable ==
  \A p \in Procs :
    \A r \in Range(logged[p]) :
      r.type = "fatal" =>
        /\ pc[p] \notin AppPCs
        /\ pc[p] \in DeadPCs => r \in Range(logFile)

\* Under --respawn, a process that has placed a window or is in the event
\* loop ran setupSignalHandler before the placement.
GuardBeforeAssign(p) ==
  (args[p].respawn /\ (pc[p] = "exec" \/ pairs[p] # <<>> \/ windows[p] # <<>>)) =>
    \E i, j \in DOMAIN events[p] :
      events[p][i] = "crashguard" /\ events[p][j] = "assign" /\ i < j

InstallWarnings ==
  {"Could not allocate space for alternative signal stack",
   "Failed to set alternative signal stack",
   "Failed to empty signal set",
   "Failed to install signal handler"}

\* C8: main() captures the identity first, installs the message handler
\* before it runs setupSignalHandler, and so under --log no warning of
\* setupSignalHandler goes to stderr.
C8_LogBeforeGuard ==
  \A p \in Procs :
    /\ events[p] # <<>> => events[p][1] = "identity"
    /\ \A i, j \in DOMAIN events[p] :
         (events[p][i] = "crashguard" /\ events[p][j] = "logsink") => j < i
    /\ args[p].log # "" =>
         \A e \in stderrOut : e[1] = p => e[2].text \notin InstallWarnings

\* ------------------------------------------- properties of setupSignalHandler
\* p ran main() itself (a forked child holds its parent's pid until it execs).
RanMain(p) == grefsonPID[p] = p
\* p wrote the install warning text (about signalsToHandle[n] when n > 0).
Warned(p, text, n) == <<p, Rec("warning", text, n)>> \in stderrOut
WarnedInstall(p) == \E e \in stderrOut : e[1] = p /\ e[2].text \in InstallWarnings
\* setupSignalHandler gave up before its sigaction loop.
WarnedEarly(p) ==
  \E e \in stderrOut :
    e[1] = p /\ e[2].text \in InstallWarnings \ {"Failed to install signal handler"}
\* p is in main() with setupSignalHandler behind it and no signal trapped.
PastInstall(p) ==
  /\ RanMain(p)
  /\ args[p].respawn
  /\ pc[p] \in AppPCs \ {"start", "parse"}
  /\ entries[p] = <<>>

\* C11 as stated: after any failure inside setupSignalHandler the process
\* has warned, lives on, and has no signal routed to signalHandler.
C11_FailureDisarmsAll ==
  \A p \in Procs :
    (PastInstall(p) /\ installed[p] # Signals) =>
      /\ WarnedInstall(p)
      /\ \A s \in Signals : disp[p][s] = "dfl"

\* C11 amended: a failure of malloc, sigaltstack or sigemptyset is warned
\* about and leaves every signal on its default disposition; a failure of
\* sigaction for a signal is warned about and leaves that signal on its
\* default disposition, the others being routed to signalHandler; in every
\* case main() goes on (the step after setupSignalHandler is not an exit)
\* and only signals whose sigaction succeeded ever enter signalHandler.
C11_FailureDegrades ==
  \A p \in Procs :
    /\ Range(entries[p]) \subseteq installed[p]
    /\ PastInstall(p) =>
         /\ installed[p] # Signals <=> WarnedInstall(p)
         /\ WarnedEarly(p) => installed[p] = {}
         /\ \A i \in DOMAIN signalsToHandle :
              Warned(p, "Failed to install signal handler", i)
                <=> (~WarnedEarly(p) /\ signalsToHandle[i] \notin installed[p])
         /\ \A s \in Signals :
              disp[p][s] = IF s \in installed[p] THEN "handler" ELSE "dfl"

C11_Witness ==
  /\ pc[1] = "exec"
  /\ PastInstall(1)
  /\ Warned(1, "Failed to set alternative signal stack", 0)
  /\ installed[1] = {}

\* ------------------------------------------------ properties of the rendering
DigitValue(c) == CHOOSE d \in 0..9 : DigitChar(d) = c
Example ==
  [ts |-> 1234, type |-> "warning", hasFunction |-> TRUE, function |-> <<"f", "o", "o">>,
   line |-> 10, msg |-> <<"b", "a", "r">>]
ExampleTail ==
  <<"1", ".", "2", "3", "4", " ", "W", "]", " ",
    "f", "o", "o", ":", "1", "0", ":", " ", "b", "a", "r", "\n">>

C13_ParentExitsItself ==
  \A f \in forks :
    /\ pc[f.parent] \in DeadPCs =>
         /\ pc[f.parent] = "exited"
         /\ exitStatus[f.parent] = ExitCode(EXIT_FAILURE)
         /\ ptracer[f.parent] = f.child
    /\ (\E e \in execs : e.by = f.child) => pc[f.parent] # "h_waitpid"

KilledBy(c) == \E k \in kills : k.by = c
ExecedBy(c) == \E e \in execs : e.by = c

\* C14: a SIGKILL has been sent only by a process that has already exec'ed
\* the executable.
C14_KillAfterExec == \A k \in kills : ExecedBy(k.by)

\* C15: a process whose handler's last fork() failed is in the handler or
\* was terminated by a signal: it neither exits nor runs application code.
C15_ForkFailureTerminates ==
  \A p \in Procs :
    forkPid[p] = -1 => pc[p] \in (HandlerPCs \cup {"signaled"})

\* C16: no step of a process is the return of signalHandler to the code it
\* interrupted: a process leaves the handler only by an exec or by
\* terminating.
C16_HandlerNeverReturns ==
  [][\A p \in Procs :
       /\ ~HandlerReturn(p)
       /\ pc[p] \in HandlerPCs => pc'[p] \in (HandlerPCs \cup DeadPCs \cup {"start"})]_vars

\* Every execl() of the handler passes no arguments, and a process started
\* by it runs without --respawn, --log, --screen and --window, has no signal
\* routed to signalHandler and never enters signalHandler.
RespawnedUnarmed ==
  /\ \A e \in execs : e.argv = NoArgs
  /\ \A p \in Procs :
       (ExecedBy(p) /\ pc[p] \in AppPCs \cup DeadPCs) =>
         /\ args[p] = NoArgs
         /\ installed[p] = {}
         /\ \A s \in Signals : disp[p][s] = "dfl"
         /\ entries[p] = <<>>

\* C17: the respawned process starts without arguments and unarmed, and at
\* most one execl() of the handler succeeds per launch.
C17_AtMostOneRespawn == RespawnedUnarmed /\ Cardinality(execs) <= 1

\* ------------------------------------------------ properties of the signal stack
RECURSIVE Count(_, _)
Count(seq, x) ==
  IF seq = <<>> THEN 0 ELSE (IF Head(seq) = x THEN 1 ELSE 0) + Count(Tail(seq), x)

\* C18: setupSignalHandler, and with it malloc of the stack, runs at most
\* once per process; the stack pointer of a process that allocated it stays
\* the allocation; a signal is routed to signalHandler only while the stack
\* is allocated and registered as the alternate stack; and the signals whose
\* sigaction() did not fail are armed whatever the failures of the others.
C18_StackAndHandler ==
  \A p \in Procs :
    /\ Count(events[p], "crashguard") <= 1
    /\ altStack[p] => signalHandlerStack[p] = "heap"
    /\ \A s \in Signals :
         disp[p][s] = "handler" => (altStack[p] /\ signalHandlerStack[p] = "heap")
    /\ (RanMain(p) /\ pc[p] \notin {"start", "parse"}) =>
         (signalHandlerStack[p] = "heap"
            <=> (args[p].respawn
                 /\ ~Warned(p, "Could not allocate space for alternative signal stack", 0)))
    /\ (PastInstall(p) /\ ~WarnedEarly(p)) =>
         /\ installed[p] =
              Signals \ {signalsToHandle[i] : i \in {j \in DOMAIN signalsToHandle :
                                                       Warned(p, "Failed to install signal handler", j)}}
         /\ \A s \in installed[p] : disp[p][s] = "handler"

C18_Witness ==
  /\ pc[1] = "exec"
  /\ PastInstall(1)
  /\ Warned(1, "Failed to install signal handler", 4)
  /\ installed[1] = Signals \ {"SIGSEGV"}
  /\ disp[1]["SIGBUS"] = "handler"
  /\ altStack[1]

\* ------------------------------------------ properties of fatal records
LoggedFatal(p) == \E r \in Range(logged[p]) : r.type = "fatal"
WroteFatal(p) == LoggedFatal(p) \/ \E e \in stderrOut : e[1] = p /\ e[2].type = "fatal"

C20_NoRecordLost ==
  \A p \in Procs :
    (RanMain(p) /\ msgHandler[p] = "qtMsgLog") =>
      IF pc[p] \in DeadPCs
      THEN logFile = logged[p]
      ELSE logFile \o logBuf[p] = logged[p]
====
